---- MODULE Spec2Model ----
(***************************************************************************)
(* The plan lifecycle engine and the subprocess layer of the Gemini CLI    *)
(* node (GeminiCli class): the plan store under <cwd>/.gemini/plans, the   *)
(* ephemeral config directory <cwd>/.gemini, runGeminiCLI with its timer,  *)
(* its close/error handlers, and the operations dispatched by execute().   *)
(*                                                                         *)
(* One action is one synchronous segment of the code: the completion of    *)
(* the awaited file-system call or process event that starts it, followed  *)
(* by the code that runs up to the next await.                             *)
(***************************************************************************)
EXTENDS Integers, Sequences, FiniteSets, TLC

\* ------------------------------------------------------------------ bounds
MaxSteps == 2          \* longest steps array an agent reply carries
MaxTime == 1           \* last value of the clock
TicksPerSecond == 2    \* clock ticks per second of the plan id's timestamp
MaxLate == 1           \* handlers of ended calls still waiting to clean up
MaxChunks == 2         \* chunks a process writes to stdout and stderr
MaxFiles == 3          \* files of the plans directory list_plans finds

\* --------------------------------------------------------------- constants
DefaultDuration == 300

\* ------------------------------------------------------------------ inputs
Callers == {"c1"}

Operations ==
  {"query", "continue", "generate_plan", "list_plans",
   "edit_plan", "approve_plan", "execute_plan"}

\* operationOptions: the model, the tool settings and whether MCP servers
\* are configured (mcpServers.servers.length > 0).
OptionChoices ==
  { [model |-> "gemini-2.5-pro",   toolsConfig |-> "safe", mcp |-> FALSE,
     systemPrompt |-> ""],
    [model |-> "gemini-2.5-flash", toolsConfig |-> "yolo", mcp |-> TRUE,
     systemPrompt |-> "be brief"] }

Prompts == {"", " ", "task"}

\* outputFormat: 'plan', and of the others the default
OutputFormats == {"plan", "structured"}

\* a trim that keeps white space
trim_none(text) == text

\* prompt.trim()
trim(text) == IF text = " " THEN "" ELSE text

ExitCodes == {0, 1}
\* Math.random().toString(36).substring(2, 8)
Suffixes == {"k3x9qz"}
SaveOutcomes == {"ok", "mkdir_failed", "write_failed"}

\* ----------------------------------------------------------------- plan ids
Seconds(t) == t \div TicksPerSecond

generatePlanId(t, r) == <<"plan", Seconds(t), r>>

PlanIds == {generatePlanId(t, r) : t \in 0..MaxTime, r \in Suffixes}

EmptyId == <<>>

\* ------------------------------------------------------------ agent replies
NoId == <<>>
NoText == <<>>
NotANumber == [type |-> "undefined", value |-> 0]
Undefined == [type |-> "undefined"]

Flavours == {"plain", "explicit"}

\* the shapes of a step that supplies some of the optional fields
Shapes == Flavours \cup {"idOnly", "textOnly"}

\* One element of the reply's steps array: "plain" leaves every optional
\* field out, "explicit" supplies them all, a status included; "idOnly" has
\* an id, a command, files that are not an array, a duration that is a
\* string and a status; "textOnly" has a description, files and a duration;
\* "sameId" has the id the first step of the other shapes has, wherever it
\* stands in the array.
ReplyStep(fl, i) ==
  CASE fl = "plain" ->
         [id |-> NoId, description |-> NoText,
          command |-> Undefined, files |-> Undefined,
          estimated_duration |-> NotANumber, status |-> "none"]
    [] fl = "sameId" ->
         [id |-> <<"task", 1>>, description |-> NoText,
          command |-> Undefined, files |-> Undefined,
          estimated_duration |-> NotANumber, status |-> "none"]
    [] fl = "idOnly" ->
         [id |-> <<"task", i>>, description |-> NoText,
          command |-> [type |-> "string", value |-> "npm test"],
          files |-> [type |-> "string", value |-> "a.ts"],
          estimated_duration |-> [type |-> "string", value |-> 60],
          status |-> "failed"]
    [] fl = "textOnly" ->
         [id |-> NoId, description |-> <<"text", i>>,
          command |-> Undefined,
          files |-> [type |-> "array", value |-> <<"a.ts">>],
          estimated_duration |-> [type |-> "number", value |-> 60],
          status |-> "none"]
    [] OTHER ->
         [id |-> <<"task", i>>, description |-> <<"text", i>>,
          command |-> [type |-> "string", value |-> "npm test"],
          files |-> [type |-> "array", value |-> <<"a.ts">>],
          estimated_duration |-> [type |-> "number", value |-> 60],
          status |-> "completed"]

\* the title and description a reply of that flavour carries
ReplyTitle(fl) == IF fl = "plain" THEN "T1" ELSE "T2"

\* a well-formed reply of n steps
planReply(n, fl) ==
  [json |-> TRUE, title |-> ReplyTitle(fl), description |-> ReplyTitle(fl),
   stepsIsArray |-> TRUE, steps |-> [i \in 1..n |-> ReplyStep(fl, i)]]

GoodReplies == {planReply(n, fl) : n \in 0..MaxSteps, fl \in Flavours}

\* the well-formed replies whose steps are of any shape, step by step
MixedReplies ==
  UNION { { [planReply(n, "plain") EXCEPT
               !.steps = [i \in 1..n |-> ReplyStep(sh[i], i)]] :
            sh \in [1..n -> Shapes] } : n \in 0..MaxSteps }

\* the well-formed replies whose steps all carry one id
SameIdReplies == {planReply(n, "sameId") : n \in 1..MaxSteps}

BadReplies ==
  { [json |-> FALSE, title |-> "", description |-> "", stepsIsArray |-> FALSE,
     steps |-> <<>>],
    [json |-> TRUE, title |-> "", description |-> "T1", stepsIsArray |-> TRUE,
     steps |-> <<>>],
    [json |-> TRUE, title |-> "T1", description |-> "", stepsIsArray |-> TRUE,
     steps |-> <<>>],
    [json |-> TRUE, title |-> "T1", description |-> "T1", stepsIsArray |-> FALSE,
     steps |-> <<>>] }

Replies == GoodReplies \cup BadReplies

\* response.result.match(/\{[\s\S]*\}/), JSON.parse, and the required fields
validReply(reply) ==
  /\ reply.json
  /\ reply.title # ""
  /\ reply.description # ""
  /\ reply.stepsIsArray

\* a map that keeps the status the reply carries
validatedSteps_keepStatus(rsteps) ==
  [i \in 1..Len(rsteps) |->
     [id |-> IF rsteps[i].id = NoId THEN <<"step", i>> ELSE rsteps[i].id,
      description |-> IF rsteps[i].description = NoText
                      THEN <<"Step", i>> ELSE rsteps[i].description,
      command |-> rsteps[i].command,
      files |-> IF rsteps[i].files.type = "array" THEN rsteps[i].files
                ELSE Undefined,
      estimated_duration |-> IF rsteps[i].estimated_duration.type = "number"
                             THEN rsteps[i].estimated_duration.value
                             ELSE DefaultDuration,
      status |-> IF rsteps[i].status = "none" THEN "pending"
                 ELSE rsteps[i].status]]

\* planData.steps.map((step, index) => ({...}))
validatedSteps(rsteps) ==
  [i \in 1..Len(rsteps) |->
     [id |-> IF rsteps[i].id = NoId THEN <<"step", i>> ELSE rsteps[i].id,
      description |-> IF rsteps[i].description = NoText
                      THEN <<"Step", i>> ELSE rsteps[i].description,
      command |-> rsteps[i].command,
      files |-> IF rsteps[i].files.type = "array" THEN rsteps[i].files
                ELSE Undefined,
      estimated_duration |-> IF rsteps[i].estimated_duration.type = "number"
                             THEN rsteps[i].estimated_duration.value
                             ELSE DefaultDuration,
      status |-> "pending"]]

\* -------------------------------------------------------------------- plans
Absent == [kind |-> "absent"]

\* a plan built from the steps of the reply as they are
newPlan_unvalidated(id, timestamp, reply, prompt, options) ==
  [kind |-> "plan",
   id |-> id,
   title |-> reply.title,
   description |-> reply.description,
   steps |-> [i \in 1..Len(reply.steps) |->
                [id |-> reply.steps[i].id,
                 description |-> reply.steps[i].description,
                 command |-> reply.steps[i].command,
                 files |-> reply.steps[i].files,
                 estimated_duration |-> reply.steps[i].estimated_duration.value,
                 status |-> "pending"]],
   created_at |-> timestamp,
   modified_at |-> timestamp,
   status |-> "draft",
   original_prompt |-> prompt,
   configuration |-> [model |-> options.model, projectPath |-> "cwd",
                      toolsConfig |-> options.toolsConfig]]

\* const executionPlan: ExecutionPlan = {...} in generatePlanWithGemini
newPlan(id, timestamp, reply, prompt, options) ==
  [kind |-> "plan",
   id |-> id,
   title |-> reply.title,
   description |-> reply.description,
   steps |-> validatedSteps(reply.steps),
   created_at |-> timestamp,
   modified_at |-> timestamp,
   status |-> "draft",
   original_prompt |-> prompt,
   configuration |-> [model |-> options.model, projectPath |-> "cwd",
                      toolsConfig |-> options.toolsConfig]]

\* an update that stamps the plan anew instead of spreading existingPlan
updatedPlan_restamped(existingPlan, reply, t) ==
  [existingPlan EXCEPT !.title = reply.title,
                       !.description = reply.description,
                       !.steps = validatedSteps(reply.steps),
                       !.created_at = t,
                       !.modified_at = t,
                       !.status = "draft"]

\* const updatedPlan: ExecutionPlan = {...existingPlan, ...} in editPlanWithGemini
updatedPlan(existingPlan, reply, t) ==
  [existingPlan EXCEPT !.title = reply.title,
                       !.description = reply.description,
                       !.steps = validatedSteps(reply.steps),
                       !.modified_at = t,
                       !.status = "draft"]

\* an approval that also sets every step back to pending
approvedPlan_resetSteps(plan, t) ==
  [plan EXCEPT !.status = "approved", !.modified_at = t,
               !.steps = [i \in 1..Len(@) |-> [@[i] EXCEPT !.status = "pending"]]]

\* planToApprove.status = 'approved'; planToApprove.modified_at = Date.now()
approvedPlan(plan, t) ==
  [plan EXCEPT !.status = "approved", !.modified_at = t]

\* a status check that lets every plan through
executable_always(plan) == TRUE

\* if (plan.status !== 'approved') throw ... in executePlan
executable(plan) == plan.status = "approved"

\* runGeminiCLI(context, executionPrompt, options) in executePlan
stepOptions(plan, options) == options

\* ------------------------------------------------------------------- state
VARIABLES
  store,     \* <cwd>/.gemini/plans: plan id -> the record in <id>.json
  gemDir,    \* whether the directory <cwd>/.gemini exists
  now,       \* Date.now()
  late,      \* handlers of ended runGeminiCLI calls that will still clean up
  call,      \* per caller: the operation execute() is running and its position
  run        \* per caller: the runGeminiCLI call in progress

vars == <<store, gemDir, now, late, call, run>>

fsVars == <<store, gemDir>>

NoArgs == [model |-> "", toolsConfig |-> "", prompt |-> ""]

NoResponse == [kind |-> "none"]

NoOptions == [model |-> "", toolsConfig |-> "", mcp |-> FALSE, systemPrompt |-> ""]

OffRun ==
  [stage |-> "off",       \* off | mkdir | write | live
   cfg |-> FALSE,         \* configDir is set
   madeDir |-> FALSE,     \* fs.mkdir(configDir) of this call succeeded
   timer |-> "none",      \* none | armed | fired | cleared
   proc |-> "none",       \* none | running | errored | closed
   pend |-> {},           \* handlers awaiting cleanupGeminiConfig: T, K, E
   code |-> 0,            \* exit code given to the close handler
   kills |-> 0,           \* SIGTERM signals sent
   settled |-> "none",    \* none | ok | fail | timeout | startfail | config
   args |-> NoArgs,       \* what the process was spawned with
   prompt |-> "",         \* the prompt parameter
   options |-> NoOptions, \* the options parameter
   startTime |-> 0,       \* const startTime = Date.now()
   duration |-> 0,        \* const duration of the close handler
   output |-> <<>>,       \* the streams the process wrote its chunks to
   messages |-> <<>>,     \* messages[]
   fullResponse |-> <<>>, \* fullResponse: the stdout chunks, concatenated
   response |-> NoResponse]  \* what the promise was resolved with

NoPlanData == [json |-> FALSE]

IdleCall ==
  [op |-> "none", pc |-> "idle", planId |-> EmptyId, prompt |-> "",
   opts |-> [model |-> "gemini-2.5-pro", toolsConfig |-> "safe", mcp |-> FALSE,
             systemPrompt |-> ""],
   timestamp |-> 0,       \* const timestamp = Date.now() of generate_plan
   mem |-> Absent,        \* existingPlan / planToApprove / plan, as loaded
   planData |-> NoPlanData,  \* planData, as parsed from the reply
   built |-> Absent,      \* executionPlan / updatedPlan, as built
   idx |-> 0,             \* position of the for loop of executePlan
   allStepsSuccessful |-> TRUE,
   results |-> <<>>,      \* results[] of executePlan: success of each entry
   outputFormat |-> "structured",
   planFiles |-> <<>>,    \* listPlans: the files of planFiles not yet read
   plans |-> <<>>,        \* listPlans: plans[], then the plans of the output
   outcome |-> "none",    \* none | returned | threw
   why |-> "",            \* the error thrown
   spawns |-> 0]          \* agent processes this operation has spawned

Init ==
  /\ store = [i \in PlanIds |-> Absent]
  /\ gemDir = FALSE
  /\ now = 0
  /\ late = 0
  /\ call = [c \in Callers |-> IdleCall]
  /\ run = [c \in Callers |-> OffRun]

\* ------------------------------------------------------------- file system
\* a file whose text JSON.parse rejects, and a file whose text is null
Unparsable == [kind |-> "unparsable"]
JsonNull == [kind |-> "null"]

\* loadPlan threw 'Failed to load plan'
LoadFailed == [kind |-> "throws"]

\* loadPlan: what JSON.parse makes of the file, null when the file is absent,
\* an error when it cannot be read or parsed
loadPlan(planId) ==
  IF planId \notin PlanIds THEN Absent
  ELSE IF store[planId] = Unparsable THEN LoadFailed
  ELSE IF store[planId] = JsonNull THEN Absent
  ELSE store[planId]

\* the keys of an ExecutionPlan and of an ExecutionStep, in insertion order
PlanKeys ==
  <<"id", "title", "description", "steps", "created_at", "modified_at",
    "status", "original_prompt", "configuration">>

StepKeys ==
  <<"id", "description", "command", "files", "estimated_duration", "status">>

\* the keys whose value the code may leave undefined
OptionalKeys == {"command", "files"}

\* obj[key] of JavaScript: undefined when the object has no such key
field(obj, key) == IF key \in DOMAIN obj THEN obj[key] ELSE Undefined

\* the keys JSON.stringify writes: those whose value is not undefined
members(obj, keys) ==
  SelectSeq(keys, LAMBDA k :
    /\ k \in DOMAIN obj
    /\ k \in OptionalKeys => obj[k].type # "undefined")

\* a serialisation of steps that leaves the files out
stepText_noFiles(step) ==
  LET keys == SelectSeq(members(step, StepKeys), LAMBDA k : k # "files")
  IN [j \in 1..Len(keys) |-> <<keys[j], step[keys[j]]>>]

\* JSON.stringify of one step: its key/value pairs
stepText(step) ==
  LET keys == members(step, StepKeys)
  IN [j \in 1..Len(keys) |-> <<keys[j], step[keys[j]]>>]

\* JSON.stringify(plan, null, 2): the key/value pairs of the plan
JSONstringify(plan) ==
  LET keys == members(plan, PlanKeys)
  IN [j \in 1..Len(keys) |->
        <<keys[j],
          IF keys[j] = "steps"
          THEN [i \in 1..Len(plan.steps) |-> stepText(plan.steps[i])]
          ELSE plan[keys[j]]>>]

\* the object JSON.parse builds from key/value pairs
object(text) ==
  [k \in {text[j][1] : j \in 1..Len(text)} |->
     text[CHOOSE j \in 1..Len(text) : text[j][1] = k][2]]

\* JSON.parse(planContent) as ExecutionPlan
JSONparse(text) ==
  LET o == object(text)
  IN [k \in DOMAIN o \cup {"kind"} |->
        IF k = "kind" THEN "plan"
        ELSE IF k = "steps"
        THEN [i \in 1..Len(o.steps) |-> object(o.steps[i])]
        ELSE o[k]]

\* savePlan: ensurePlansDirectory (mkdir -p .gemini/plans), then writeFile.
\* The store holds every file as what JSON.parse makes of its text.
savePlan(plan, out) ==
  IF out = "ok"
  THEN /\ store' = [store EXCEPT ![plan.id] = JSONparse(JSONstringify(plan))]
       /\ gemDir' = TRUE
  ELSE IF out = "write_failed"
  THEN /\ gemDir' = TRUE
       /\ UNCHANGED store
  ELSE UNCHANGED fsVars

\* cleanupGeminiConfig: fs.rm(configDir, {recursive, force}); errors swallowed
cleanupGeminiConfig(rmOk) ==
  IF rmOk
  THEN /\ store' = [i \in PlanIds |-> Absent]
       /\ gemDir' = FALSE
  ELSE UNCHANGED fsVars

\* ------------------------------------------------------------ runGeminiCLI
\* finalPrompt = systemPrompt ? `${systemPrompt}\n\n${prompt}` : prompt
finalPrompt(prompt, options) ==
  IF options.systemPrompt # "" THEN <<options.systemPrompt, prompt>>
  ELSE <<prompt>>

\* spawn('gemini', args, ...), setTimeout(...), the handlers registered, and
\* messages.unshift of the user message
spawned(r, options) ==
  [r EXCEPT !.stage = "live", !.timer = "armed", !.proc = "running",
            !.args = [model |-> options.model,
                      toolsConfig |-> options.toolsConfig,
                      prompt |-> finalPrompt(r.prompt, options)],
            !.messages = <<[type |-> "user",
                            content |-> finalPrompt(r.prompt, options)]>> \o @]

\* the promise executor up to its first await
newRun(options, prompt, t) ==
  IF options.mcp
  THEN [OffRun EXCEPT !.stage = "mkdir", !.prompt = prompt, !.startTime = t,
                      !.options = options]
  ELSE spawned([OffRun EXCEPT !.prompt = prompt, !.startTime = t,
                              !.options = options], options)

newSpawns(options) == IF options.mcp THEN 0 ELSE 1

\* resolve(...) / reject(...): a promise settles once
settle(r, how) == IF r.settled = "none" THEN [r EXCEPT !.settled = how] ELSE r

closeResult(code) == IF code = 0 THEN "ok" ELSE "fail"

NoError == <<>>

\* a result that keeps the output of successful runs only
closeResponse_noPartial(r) ==
  [kind |-> "result",
   messages |-> r.messages,
   result |-> IF r.code = 0 THEN r.fullResponse ELSE <<>>,
   success |-> r.code = 0,
   duration_ms |-> r.duration,
   error |-> IF r.code = 0 THEN NoError
             ELSE <<"Gemini CLI exited with code", r.code>>]

\* the object the close handler passes to resolve
closeResponse(r) ==
  [kind |-> "result",
   messages |-> r.messages,
   result |-> r.fullResponse,
   success |-> r.code = 0,
   duration_ms |-> r.duration,
   error |-> IF r.code = 0 THEN NoError
             ELSE <<"Gemini CLI exited with code", r.code>>]

\* resolve({...}) of the close handler
resolveClose(r) ==
  IF r.settled = "none"
  THEN [settle(r, closeResult(r.code)) EXCEPT !.response = closeResponse(r)]
  ELSE r

\* cleanups the handlers of run r will still perform after the call ended
leftover(r) ==
  IF r.cfg
  THEN Cardinality(r.pend) + (IF r.proc \in {"running", "errored"} THEN 1 ELSE 0)
  ELSE 0

\* Date.now(): the clock is read; it never runs backwards
DateNow == now' \in {t \in {now, now + 1} : t <= MaxTime}

\* createGeminiConfig: await fs.mkdir(configDir, {recursive: true})
createGeminiConfig_mkdir(c) ==
  /\ run[c].stage = "mkdir"
  /\ run[c].settled = "none"
  /\ \E ok \in BOOLEAN :
       IF ok
       THEN /\ gemDir' = TRUE
            /\ run' = [run EXCEPT ![c].stage = "write", ![c].madeDir = TRUE]
            /\ UNCHANGED store
       ELSE /\ run' = [run EXCEPT ![c] = settle(@, "config")]
            /\ UNCHANGED fsVars
  /\ UNCHANGED <<now, late, call>>

\* createGeminiConfig: await fs.writeFile(settingsPath, ...), then the spawn
createGeminiConfig_write(c) ==
  /\ run[c].stage = "write"
  /\ run[c].settled = "none"
  /\ \E ok \in BOOLEAN :
       IF ok
       THEN /\ gemDir' = TRUE
            /\ run' = [run EXCEPT
                 ![c] = spawned([@ EXCEPT !.cfg = TRUE], @.options)]
            /\ call' = [call EXCEPT ![c].spawns = @ + 1]
            /\ UNCHANGED store
       ELSE /\ run' = [run EXCEPT ![c] = settle(@, "config")]
            /\ UNCHANGED <<fsVars, call>>
  /\ UNCHANGED <<now, late>>

\* setTimeout callback: kill('SIGTERM'), cleanup when configDir, reject
onTimeout(c) ==
  /\ run[c].timer = "armed"
  /\ run[c].cfg => late < MaxLate
  /\ run' = [run EXCEPT ![c] =
       IF @.cfg
       THEN [@ EXCEPT !.timer = "fired", !.kills = @ + 1, !.pend = @ \cup {"T"}]
       ELSE settle([@ EXCEPT !.timer = "fired", !.kills = @ + 1], "timeout")]
  /\ UNCHANGED <<fsVars, now, late, call>>

\* the timeout callback after its await cleanupGeminiConfig(configDir)
onTimeout_cleaned(c) ==
  /\ "T" \in run[c].pend
  /\ \E rmOk \in BOOLEAN : cleanupGeminiConfig(rmOk)
  /\ run' = [run EXCEPT ![c] = settle([@ EXCEPT !.pend = @ \ {"T"}], "timeout")]
  /\ UNCHANGED <<now, late, call>>

\* the text of the k-th chunk the process writes
chunk(k) == <<"chunk", k>>

\* a stdout handler that puts its message at the head of the list
onStdout_unshift(c) ==
  /\ run[c].proc = "running"
  /\ Len(run[c].output) < MaxChunks
  /\ run' = [run EXCEPT ![c] =
       LET text == chunk(Len(@.output) + 1)
       IN [@ EXCEPT !.output = Append(@, "stdout"),
                    !.fullResponse = Append(@, text),
                    !.messages = <<[type |-> "assistant",
                                    content |-> text]>> \o @]]
  /\ UNCHANGED <<fsVars, now, late, call>>

\* geminiProcess.stdout.on('data')
onStdout(c) ==
  /\ run[c].proc = "running"
  /\ Len(run[c].output) < MaxChunks
  /\ run' = [run EXCEPT ![c] =
       LET text == chunk(Len(@.output) + 1)
       IN [@ EXCEPT !.output = Append(@, "stdout"),
                    !.fullResponse = Append(@, text),
                    !.messages = Append(@, [type |-> "assistant",
                                            content |-> text])]]
  /\ UNCHANGED <<fsVars, now, late, call>>

\* geminiProcess.stderr.on('data')
onStderr(c) ==
  /\ run[c].proc = "running"
  /\ Len(run[c].output) < MaxChunks
  /\ run' = [run EXCEPT ![c] =
       LET text == chunk(Len(@.output) + 1)
       IN [@ EXCEPT !.output = Append(@, "stderr"),
                    !.messages = Append(@, [type |-> "error",
                                            content |-> text])]]
  /\ UNCHANGED <<fsVars, now, late, call>>

\* a close handler without clearTimeout(timeoutId)
onClose_keepsTimer(c) ==
  /\ run[c].proc \in {"running", "errored"}
  /\ DateNow
  /\ \E code \in ExitCodes :
       /\ run[c].proc = "errored" => code # 0
       /\ run' = [run EXCEPT ![c] =
            LET r == [@ EXCEPT !.proc = "closed", !.code = code,
                               !.duration = now' - run[c].startTime]
            IN IF r.cfg THEN [r EXCEPT !.pend = @ \cup {"K"}]
               ELSE resolveClose(r)]
  /\ UNCHANGED <<fsVars, late, call>>

\* geminiProcess.on('close'): clearTimeout, cleanup when configDir, resolve
onClose(c) ==
  /\ run[c].proc \in {"running", "errored"}
  /\ DateNow
  /\ \E code \in ExitCodes :
       /\ run[c].proc = "errored" => code # 0
       /\ run' = [run EXCEPT ![c] =
            LET r == [@ EXCEPT !.proc = "closed", !.code = code,
                               !.timer = IF @ = "armed" THEN "cleared" ELSE @,
                               !.duration = now' - run[c].startTime]
            IN IF r.cfg THEN [r EXCEPT !.pend = @ \cup {"K"}]
               ELSE resolveClose(r)]
  /\ UNCHANGED <<fsVars, late, call>>

\* a close handler that rejects when the removal failed
onClose_cleaned_raises(c) ==
  /\ "K" \in run[c].pend
  /\ \E rmOk \in BOOLEAN :
       /\ cleanupGeminiConfig(rmOk)
       /\ run' = [run EXCEPT ![c] =
            IF rmOk \/ ~gemDir THEN resolveClose([@ EXCEPT !.pend = @ \ {"K"}])
            ELSE settle([@ EXCEPT !.pend = @ \ {"K"}], "cleanup")]
  /\ UNCHANGED <<now, late, call>>

\* the close handler after its await cleanupGeminiConfig(configDir)
onClose_cleaned(c) ==
  /\ "K" \in run[c].pend
  /\ \E rmOk \in BOOLEAN : cleanupGeminiConfig(rmOk)
  /\ run' = [run EXCEPT ![c] = resolveClose([@ EXCEPT !.pend = @ \ {"K"}])]
  /\ UNCHANGED <<now, late, call>>

\* geminiProcess.on('error'): the process could not be started
onError(c) ==
  /\ run[c].proc = "running"
  /\ run[c].timer = "armed"
  /\ run[c].cfg => late < MaxLate
  /\ run' = [run EXCEPT ![c] =
       LET r == [@ EXCEPT !.proc = "errored", !.timer = "cleared"]
       IN IF r.cfg THEN [r EXCEPT !.pend = @ \cup {"E"}]
          ELSE settle(r, "startfail")]
  /\ UNCHANGED <<fsVars, now, late, call>>

\* the error handler after its await cleanupGeminiConfig(configDir)
onError_cleaned(c) ==
  /\ "E" \in run[c].pend
  /\ \E rmOk \in BOOLEAN : cleanupGeminiConfig(rmOk)
  /\ run' = [run EXCEPT ![c] = settle([@ EXCEPT !.pend = @ \ {"E"}], "startfail")]
  /\ UNCHANGED <<now, late, call>>

\* a handler of a call that has already returned runs its cleanup
lateCleanup ==
  /\ late > 0
  /\ late' = late - 1
  /\ \E rmOk \in BOOLEAN : cleanupGeminiConfig(rmOk)
  /\ UNCHANGED <<now, call, run>>

\* ------------------------------------------------------------- operations
\* the prompts the plan operations give to runGeminiCLI
planningSystemPrompt == "planner"
planningPrompt(prompt) == <<"plan for", prompt>>
editingSystemPrompt == "editor"
editingPrompt(existingPlan) == <<"edit", existingPlan.title>>
executionPrompt(step) == <<"execute", step.description>>

PromptOps == {"query", "continue", "generate_plan"}
PlanOps == {"edit_plan", "approve_plan", "execute_plan"}

\* case 'query': case 'continue': share one body
caseOf(op) == IF op = "continue" THEN "query" ELSE op

threw(cr, why) == [cr EXCEPT !.pc = "done", !.outcome = "threw", !.why = why]

returned(cr) == [cr EXCEPT !.pc = "done", !.outcome = "returned"]

\* execute(): parameter validation, checkGeminiCLI, validateProjectPath, and
\* the switch on the operation up to its first await
execute_begin(c) ==
  /\ call[c].pc = "idle"
  /\ DateNow
  /\ \E op \in Operations, o \in OptionChoices, prompt \in Prompts,
        planId \in PlanIds \cup {EmptyId}, r \in Suffixes,
        outputFormat \in OutputFormats,
        env \in {"ok", "no_cli", "bad_path"} :
       /\ op \notin PromptOps => prompt = ""
       /\ op \notin PlanOps => planId = EmptyId
       /\ op # "list_plans" => outputFormat = IdleCall.outputFormat
       /\ LET cr == [IdleCall EXCEPT !.op = caseOf(op), !.opts = o,
                                     !.prompt = prompt, !.planId = planId,
                                     !.outputFormat = outputFormat]
          IN IF op \in PromptOps /\ trim(prompt) = ""
             THEN call' = [call EXCEPT ![c] = threw(cr, "validation")]
                  /\ UNCHANGED run
             ELSE IF op \in PlanOps /\ planId = EmptyId
             THEN call' = [call EXCEPT ![c] = threw(cr, "validation")]
                  /\ UNCHANGED run
             ELSE IF env # "ok"
             THEN call' = [call EXCEPT ![c] = threw(cr, env)]
                  /\ UNCHANGED run
             ELSE IF op \in {"query", "continue"}
             THEN call' = [call EXCEPT ![c] =
                    [cr EXCEPT !.pc = "q_await", !.spawns = newSpawns(o)]]
                  /\ run' = [run EXCEPT ![c] = newRun(o, prompt, now')]
             ELSE IF op = "generate_plan"
             THEN call' = [call EXCEPT ![c] =
                    [cr EXCEPT !.pc = "g_await", !.spawns = newSpawns(o),
                               !.planId = generatePlanId(now', r),
                               !.timestamp = now']]
                  /\ run' = [run EXCEPT ![c] =
                       newRun([o EXCEPT !.systemPrompt = planningSystemPrompt],
                              planningPrompt(prompt), now')]
             ELSE call' = [call EXCEPT ![c] =
                    [cr EXCEPT !.pc =
                       CASE op = "list_plans" -> "l_read"
                         [] op = "edit_plan" -> "e_load"
                         [] op = "approve_plan" -> "a_load"
                         [] OTHER -> "x_load"]]
                  /\ UNCHANGED run
  /\ UNCHANGED <<fsVars, late>>

\* the awaited runGeminiCLI promise is settled: its handlers that have not
\* finished go on without the caller
endRun(c) ==
  /\ run[c].settled # "none"
  /\ run' = [run EXCEPT ![c] = OffRun]
  /\ late' = late + leftover(run[c])

\* case 'query' / 'continue': response = await runGeminiCLI(...)
query_result(c) ==
  /\ call[c].pc = "q_await"
  /\ endRun(c)
  /\ call' = [call EXCEPT ![c] =
       IF run[c].settled \in {"ok", "fail"} THEN returned(@)
       ELSE threw(@, run[c].settled)]
  /\ UNCHANGED <<fsVars, now>>

\* generatePlanWithGemini: the reply, one of replies, is parsed and the plan
\* built
generatePlanWithGemini_parse(c, replies) ==
  /\ call[c].pc = "g_await"
  /\ endRun(c)
  /\ IF run[c].settled # "ok"
     THEN call' = [call EXCEPT ![c] = threw(@, run[c].settled)]
     ELSE \E reply \in replies :
            call' = [call EXCEPT ![c] =
              IF validReply(reply)
              THEN [@ EXCEPT !.pc = "g_save",
                             !.planData = reply,
                             !.built = newPlan(call[c].planId,
                                               call[c].timestamp, reply,
                                               call[c].prompt, call[c].opts)]
              ELSE threw(@, "parse")]
  /\ UNCHANGED <<fsVars, now>>

generatePlanWithGemini_reply(c) == generatePlanWithGemini_parse(c, Replies)

\* generatePlanWithGemini: await savePlan(executionPlan, ...)
generatePlanWithGemini_save(c) ==
  /\ call[c].pc = "g_save"
  /\ \E out \in SaveOutcomes :
       /\ savePlan(call[c].built, out)
       /\ call' = [call EXCEPT ![c] =
            IF out = "ok" THEN returned([@ EXCEPT !.planData = NoPlanData])
            ELSE threw([@ EXCEPT !.planData = NoPlanData], "storage")]
  /\ UNCHANGED <<now, late, run>>

\* ---------------------------------------------------------------- listPlans
\* fs.readdir(plansDir): the names of the files, in the order the system
\* gives them
readdir ==
  LET names == {id \in DOMAIN store : store[id] # Absent}
  IN {files \in [1..Cardinality(names) -> names] :
        \A i, j \in 1..Cardinality(names) : files[i] = files[j] => i = j}

\* the comparator (a, b) => b.created_at - a.created_at is called on every
\* element of an array of two or more, and cannot read a property of null
sortThrows(plans) ==
  /\ Len(plans) >= 2
  /\ \E i \in 1..Len(plans) : plans[i] = JsonNull

\* plans.sort((a, b) => b.created_at - a.created_at), a stable sort
RECURSIVE sort(_)
sort(plans) ==
  IF Len(plans) < 2 THEN plans
  ELSE LET n == Len(plans)
           head == sort(SubSeq(plans, 1, n - 1))
           k == Cardinality({i \in 1..n - 1 :
                               head[i].created_at >= plans[n].created_at})
       IN SubSeq(head, 1, k) \o <<plans[n]>> \o SubSeq(head, k + 1, n - 1)

\* plans.map(p => ({id: p.id, ...})) of the list_plans output
planSummary(p) ==
  [id |-> p.id, title |-> p.title, status |-> p.status,
   stepCount |-> Len(p.steps), created_at |-> p.created_at,
   modified_at |-> p.modified_at]

\* the return of listPlans and the list_plans output of execute()
listed(cr) ==
  IF sortThrows(cr.plans) THEN threw(cr, "list")
  ELSE IF cr.outputFormat = "plan"
  THEN returned([cr EXCEPT !.plans = sort(@)])
  ELSE IF \E i \in 1..Len(cr.plans) : cr.plans[i] = JsonNull
  THEN threw(cr, "type_error")
  ELSE returned([cr EXCEPT !.plans =
                   [i \in 1..Len(@) |-> planSummary(sort(@)[i])]])

\* the head of the for loop of listPlans, and what follows the loop
nextFile(cr) ==
  IF cr.planFiles = <<>> THEN listed(cr) ELSE [cr EXCEPT !.pc = "l_file"]

\* listPlans: files = await fs.readdir(plansDir)
listPlans_read(c) ==
  /\ call[c].pc = "l_read"
  /\ \E ok \in BOOLEAN :
       IF ok
       THEN \E files \in readdir :
              call' = [call EXCEPT ![c] = nextFile([@ EXCEPT !.planFiles = files])]
       ELSE call' = [call EXCEPT ![c] = threw(@, "readdir")]
  /\ UNCHANGED <<fsVars, now, late, run>>

\* listPlans: planContent = await fs.readFile(...), JSON.parse, plans.push
listPlans_file(c) ==
  /\ call[c].pc = "l_file"
  /\ LET file == Head(call[c].planFiles)
         plan == store[file]
     IN call' = [call EXCEPT ![c] =
          nextFile([@ EXCEPT !.planFiles = Tail(@),
                             !.plans = IF plan \in {Absent, Unparsable} THEN @
                                       ELSE Append(@, plan)])]
  /\ UNCHANGED <<fsVars, now, late, run>>

\* editPlanWithGemini: existingPlan = await loadPlan(...), then runGeminiCLI
editPlanWithGemini_load(c) ==
  /\ call[c].pc = "e_load"
  /\ LET existingPlan == loadPlan(call[c].planId)
     IN IF existingPlan = LoadFailed
        THEN call' = [call EXCEPT ![c] = threw(@, "load")]
             /\ UNCHANGED run
        ELSE IF existingPlan.kind # "plan"
        THEN call' = [call EXCEPT ![c] = threw(@, "not_found")]
             /\ UNCHANGED run
        ELSE call' = [call EXCEPT ![c] =
               [@ EXCEPT !.pc = "e_await", !.mem = existingPlan,
                         !.spawns = newSpawns(call[c].opts)]]
             /\ run' = [run EXCEPT ![c] =
                  newRun([call[c].opts EXCEPT
                            !.systemPrompt = editingSystemPrompt],
                         editingPrompt(existingPlan), now)]
  /\ UNCHANGED <<fsVars, now, late>>

\* editPlanWithGemini: the reply is parsed and the updated plan built
editPlanWithGemini_reply(c) ==
  /\ call[c].pc = "e_await"
  /\ DateNow
  /\ endRun(c)
  /\ IF run[c].settled # "ok"
     THEN call' = [call EXCEPT ![c] = threw(@, run[c].settled)]
     ELSE \E reply \in Replies :
            call' = [call EXCEPT ![c] =
              IF validReply(reply)
              THEN [@ EXCEPT !.pc = "e_save",
                             !.built = updatedPlan(call[c].mem, reply, now')]
              ELSE threw(@, "parse")]
  /\ UNCHANGED fsVars

\* editPlanWithGemini: await savePlan(updatedPlan, ...)
editPlanWithGemini_save(c) ==
  /\ call[c].pc = "e_save"
  /\ \E out \in SaveOutcomes :
       /\ savePlan(call[c].built, out)
       /\ call' = [call EXCEPT ![c] =
            IF out = "ok" THEN returned(@) ELSE threw(@, "storage")]
  /\ UNCHANGED <<now, late, run>>

\* case 'approve_plan': planToApprove = await loadPlan(...)
approve_plan_load(c) ==
  /\ call[c].pc = "a_load"
  /\ DateNow
  /\ LET planToApprove == loadPlan(call[c].planId)
     IN call' = [call EXCEPT ![c] =
          IF planToApprove = LoadFailed THEN threw(@, "load")
          ELSE IF planToApprove.kind # "plan" THEN threw(@, "not_found")
          ELSE [@ EXCEPT !.pc = "a_save",
                         !.mem = approvedPlan(planToApprove, now')]]
  /\ UNCHANGED <<fsVars, late, run>>

\* case 'approve_plan': await savePlan(planToApprove, ...)
approve_plan_save(c) ==
  /\ call[c].pc = "a_save"
  /\ \E out \in SaveOutcomes :
       /\ savePlan(call[c].mem, out)
       /\ call' = [call EXCEPT ![c] =
            IF out = "ok" THEN returned(@) ELSE threw(@, "storage")]
  /\ UNCHANGED <<now, late, run>>

\* ------------------------------------------------------------- executePlan
\* a final status that is completed whatever the steps did
finalStatus_completed(cr, t) ==
  [cr EXCEPT !.pc = "x_save_final", !.mem.status = "completed",
             !.mem.modified_at = t]

\* after the for loop: plan.status = allStepsSuccessful ? 'completed' : 'failed'
finalStatus(cr, t) ==
  [cr EXCEPT !.pc = "x_save_final",
             !.mem.status = IF cr.allStepsSuccessful THEN "completed" ELSE "failed",
             !.mem.modified_at = t]

\* the head of the for loop: step.status = 'in_progress'
enterStep(cr, i, t) ==
  IF i <= Len(cr.mem.steps)
  THEN [cr EXCEPT !.pc = "x_save_in_progress", !.idx = i,
                  !.mem.steps[i].status = "in_progress"]
  ELSE finalStatus(cr, t)

\* catch (error): plan.status = 'failed'
catchError(cr, t) ==
  [cr EXCEPT !.pc = "x_save_catch", !.mem.status = "failed",
             !.mem.modified_at = t]

\* if (stepResult.success) step.status = 'completed'
stepCompleted(cr) ==
  [cr EXCEPT !.pc = "x_save_progress",
             !.mem.steps[cr.idx].status = "completed",
             !.results = Append(@, TRUE)]

\* else / catch (stepError): step.status = 'failed'; break
stepFailed(cr, pushed, t) ==
  finalStatus([cr EXCEPT !.mem.steps[cr.idx].status = "failed",
                         !.allStepsSuccessful = FALSE,
                         !.results = IF pushed THEN Append(@, FALSE) ELSE @], t)

\* a load that fails while another call holds the plan between its own load
\* and its save of the status executing
executePlan_load_locked(c) ==
  /\ call[c].pc = "x_load"
  /\ DateNow
  /\ LET plan == loadPlan(call[c].planId)
         busy == \E d \in DOMAIN call \ {c} :
                   /\ call[d].pc = "x_save_executing"
                   /\ call[d].planId = call[c].planId
     IN call' = [call EXCEPT ![c] =
          IF plan = LoadFailed THEN threw(@, "load")
          ELSE IF plan.kind # "plan" THEN threw(@, "not_found")
          ELSE IF ~executable(plan) \/ busy THEN threw(@, "state")
          ELSE [@ EXCEPT !.pc = "x_save_executing",
                         !.mem = [plan EXCEPT !.status = "executing",
                                              !.modified_at = now']]]
  /\ UNCHANGED <<fsVars, late, run>>

\* plan = await loadPlan(...); the status check; plan.status = 'executing'
executePlan_load(c) ==
  /\ call[c].pc = "x_load"
  /\ DateNow
  /\ LET plan == loadPlan(call[c].planId)
     IN call' = [call EXCEPT ![c] =
          IF plan = LoadFailed THEN threw(@, "load")
          ELSE IF plan.kind # "plan" THEN threw(@, "not_found")
          ELSE IF ~executable(plan) THEN threw(@, "state")
          ELSE [@ EXCEPT !.pc = "x_save_executing",
                         !.mem = [plan EXCEPT !.status = "executing",
                                              !.modified_at = now']]]
  /\ UNCHANGED <<fsVars, late, run>>

\* await savePlan(plan, ...) before the try block
executePlan_saveExecuting(c) ==
  /\ call[c].pc = "x_save_executing"
  /\ DateNow
  /\ \E out \in SaveOutcomes :
       /\ savePlan(call[c].mem, out)
       /\ call' = [call EXCEPT ![c] =
            IF out = "ok" THEN enterStep(@, 1, now') ELSE threw(@, "storage")]
  /\ UNCHANGED <<late, run>>

\* await savePlan(plan, ...) of the in_progress step, then runGeminiCLI
executePlan_saveInProgress(c) ==
  /\ call[c].pc = "x_save_in_progress"
  /\ DateNow
  /\ \E out \in SaveOutcomes :
       /\ savePlan(call[c].mem, out)
       /\ IF out = "ok"
          THEN LET o == stepOptions(call[c].mem, call[c].opts)
               IN /\ call' = [call EXCEPT ![c] =
                       [@ EXCEPT !.pc = "x_await",
                                 !.spawns = @ + newSpawns(o)]]
                  /\ run' = [run EXCEPT ![c] =
                       newRun(o, executionPrompt(call[c].mem.steps[call[c].idx]),
                              now')]
          ELSE /\ call' = [call EXCEPT ![c] = catchError(@, now')]
               /\ UNCHANGED run
  /\ UNCHANGED late

\* stepResult = await runGeminiCLI(...) and the inner try/catch
executePlan_stepResult(c) ==
  /\ call[c].pc = "x_await"
  /\ DateNow
  /\ endRun(c)
  /\ call' = [call EXCEPT ![c] =
       IF run[c].settled = "ok" THEN stepCompleted(@)
       ELSE stepFailed(@, run[c].settled = "fail", now')]
  /\ UNCHANGED fsVars

\* await savePlan(plan, ...) after a completed step
executePlan_saveProgress(c) ==
  /\ call[c].pc = "x_save_progress"
  /\ DateNow
  /\ \E out \in SaveOutcomes :
       /\ savePlan(call[c].mem, out)
       /\ call' = [call EXCEPT ![c] =
            IF out = "ok" THEN enterStep(@, @.idx + 1, now')
            ELSE catchError(@, now')]
  /\ UNCHANGED <<late, run>>

\* await savePlan(plan, ...) of the final status; return { plan, results }
executePlan_saveFinal(c) ==
  /\ call[c].pc = "x_save_final"
  /\ DateNow
  /\ \E out \in SaveOutcomes :
       /\ savePlan(call[c].mem, out)
       /\ call' = [call EXCEPT ![c] =
            IF out = "ok" THEN returned(@) ELSE catchError(@, now')]
  /\ UNCHANGED <<late, run>>

\* await savePlan(plan, ...) in the catch block; throw error
executePlan_saveCatch(c) ==
  /\ call[c].pc = "x_save_catch"
  /\ \E out \in SaveOutcomes :
       /\ savePlan(call[c].mem, out)
       /\ call' = [call EXCEPT ![c] = threw(@, "storage")]
  /\ UNCHANGED <<now, late, run>>

\* execute() pushes the item's output, or its error, and takes the next item
execute_end(c) ==
  /\ call[c].pc = "done"
  /\ call' = [call EXCEPT ![c] = IdleCall]
  /\ UNCHANGED <<fsVars, now, late, run>>

\* the events of a runGeminiCLI call
runGeminiCLI(c) ==
  \/ createGeminiConfig_mkdir(c)
  \/ createGeminiConfig_write(c)
  \/ onTimeout(c)
  \/ onTimeout_cleaned(c)
  \/ onClose(c)
  \/ onClose_cleaned(c)
  \/ onError(c)
  \/ onError_cleaned(c)

\* the segments of executePlan
executePlan(c) ==
  \/ executePlan_load(c)
  \/ executePlan_saveExecuting(c)
  \/ executePlan_saveInProgress(c)
  \/ executePlan_stepResult(c)
  \/ executePlan_saveProgress(c)
  \/ executePlan_saveFinal(c)
  \/ executePlan_saveCatch(c)

Next ==
  \/ lateCleanup
  \/ \E c \in Callers :
       \/ execute_begin(c)
       \/ runGeminiCLI(c)
       \/ query_result(c)
       \/ generatePlanWithGemini_reply(c)
       \/ generatePlanWithGemini_save(c)
       \/ listPlans_read(c)
       \/ listPlans_file(c)
       \/ editPlanWithGemini_load(c)
       \/ editPlanWithGemini_reply(c)
       \/ editPlanWithGemini_save(c)
       \/ approve_plan_load(c)
       \/ approve_plan_save(c)
       \/ executePlan(c)
       \/ execute_end(c)

\* The plan operations read the reply of the agent when they parse it: Spec
\* leaves the data events of the process to SpecRun.
Spec == Init /\ [][Next]_vars

\* ------------------------------------------- runGeminiCLI under a query
\* case 'query' of execute()
query_begin(c) ==
  /\ execute_begin(c)
  /\ call'[c].op = "query"

NextRun ==
  \/ lateCleanup
  \/ \E c \in Callers :
       \/ query_begin(c)
       \/ runGeminiCLI(c)
       \/ onStdout(c)
       \/ onStderr(c)
       \/ query_result(c)
       \/ execute_end(c)

SpecRun == Init /\ [][NextRun]_vars

\* ------------------------------ a plans directory with files left by others
\* The files of .gemini/plans are not only those savePlan wrote: a file may
\* hold a truncated document or any other text.
InitStore ==
  /\ store \in [PlanIds -> {Absent, Unparsable, JsonNull}]
  /\ gemDir = (\E i \in PlanIds : store[i] # Absent)
  /\ now = 0
  /\ late = 0
  /\ call = [c \in Callers |-> IdleCall]
  /\ run = [c \in Callers |-> OffRun]

SpecStore == InitStore /\ [][Next]_vars

\* ------------------------------------- generate_plan over replies of all shapes
\* case 'generate_plan' of execute()
generate_plan_begin(c) ==
  /\ execute_begin(c)
  /\ call'[c].op = "generate_plan"

generate_plan_reply(c) ==
  generatePlanWithGemini_parse(c,
    MixedReplies \cup SameIdReplies \cup BadReplies)

NextGen ==
  \/ lateCleanup
  \/ \E c \in Callers :
       \/ generate_plan_begin(c)
       \/ runGeminiCLI(c)
       \/ generate_plan_reply(c)
       \/ generatePlanWithGemini_save(c)
       \/ execute_end(c)

SpecGen == Init /\ [][NextGen]_vars

\* ------------------------------------------ list_plans over a plans directory
\* the names of the files of .gemini/plans
PlanFileNames == {<<"plan", s, r>> : s \in 0..MaxFiles - 1, r \in Suffixes}

\* the file savePlan wrote for a plan generated at time t
planFile(id, t) ==
  JSONparse(JSONstringify(
    newPlan(id, t, planReply(1, "plain"), "task", IdleCall.opts)))

\* The directory holds plans saved at any time, in files of any name, next
\* to files that hold a truncated document or the text null.
InitList ==
  /\ \E kind \in [PlanFileNames -> {"absent", "unparsable", "null", "plan"}],
        at \in [PlanFileNames -> 0..MaxTime] :
       /\ \A id \in PlanFileNames : kind[id] # "plan" => at[id] = 0
       /\ store = [id \in PlanFileNames |->
                     CASE kind[id] = "absent" -> Absent
                       [] kind[id] = "unparsable" -> Unparsable
                       [] kind[id] = "null" -> JsonNull
                       [] OTHER -> planFile(id, at[id])]
  /\ gemDir = (\E id \in PlanFileNames : store[id] # Absent)
  /\ now = 0
  /\ late = 0
  /\ call = [c \in Callers |-> IdleCall]
  /\ run = [c \in Callers |-> OffRun]

\* case 'list_plans' of execute()
list_plans_begin(c) ==
  /\ execute_begin(c)
  /\ call'[c].op = "list_plans"

NextList ==
  \E c \in Callers :
    \/ list_plans_begin(c)
    \/ listPlans_read(c)
    \/ listPlans_file(c)
    \/ execute_end(c)

SpecList == InitList /\ [][NextList]_vars

\* -------------------------------- two executions on one working directory
\* two executions of the node that overlap in time, each with one item
Pair == {"c1", "c2"}

\* the file of a plan of n steps that was generated and then approved
approvedFile(id, n) ==
  JSONparse(JSONstringify(
    approvedPlan(newPlan(id, 0, planReply(n, "plain"), "task", IdleCall.opts),
                 0)))

\* an approved plan of one or more steps is stored and no call is running
InitPair ==
  /\ \E n \in 1..MaxSteps :
       store = [id \in PlanIds |-> approvedFile(id, n)]
  /\ gemDir = TRUE
  /\ now = 0
  /\ late = 0
  /\ call = [c \in Pair |-> IdleCall]
  /\ run = [c \in Pair |-> OffRun]

\* case 'execute_plan' of execute()
execute_plan_begin(c) ==
  /\ execute_begin(c)
  /\ call'[c].op = "execute_plan"

NextExecPair ==
  \/ lateCleanup
  \/ \E c \in Pair :
       \/ execute_plan_begin(c)
       \/ runGeminiCLI(c)
       \/ executePlan(c)

SpecExecPair == InitPair /\ [][NextExecPair]_vars

\* one execution runs the plan while the other edits or approves it
edit_or_approve_begin(c) ==
  /\ execute_begin(c)
  /\ call'[c].op \in {"edit_plan", "approve_plan"}

NextEditPair ==
  \/ lateCleanup
  \/ \E c \in Pair : runGeminiCLI(c)
  \/ execute_plan_begin("c1")
  \/ executePlan("c1")
  \/ edit_or_approve_begin("c2")
  \/ editPlanWithGemini_load("c2")
  \/ editPlanWithGemini_reply("c2")
  \/ editPlanWithGemini_save("c2")
  \/ approve_plan_load("c2")
  \/ approve_plan_save("c2")

SpecEditPair == InitPair /\ [][NextEditPair]_vars

\* no plan is stored and no call is running
InitQueryPair ==
  /\ store = [i \in PlanIds |-> Absent]
  /\ gemDir = FALSE
  /\ now = 0
  /\ late = 0
  /\ call = [c \in Pair |-> IdleCall]
  /\ run = [c \in Pair |-> OffRun]

NextQueryPair ==
  \/ lateCleanup
  \/ \E c \in Pair :
       \/ query_begin(c)
       \/ runGeminiCLI(c)
       \/ query_result(c)

SpecQueryPair == InitQueryPair /\ [][NextQueryPair]_vars

\* ------------------------------------- the arguments of the agent process
\* options.model: '' when no model is set
ArgModels == {"", "gemini-2.5-pro", "gemini-2.5-flash"}

\* options.toolsConfig?.securityMode: '' when toolsConfig or the mode is
\* undefined
SecurityModes == {"", "safe", "yolo", "sandbox"}

ArgPrompts == {"task", "other task"}

SystemPrompts == {"", "be brief"}

\* the options that runGeminiCLI reads when it builds the arguments
ArgOptions ==
  [model : ArgModels,
   toolsConfig : [securityMode : SecurityModes, checkpointing : BOOLEAN],
   debug : BOOLEAN,
   systemPrompt : SystemPrompts,
   mcp : {FALSE}]

\* switch (options.toolsConfig.securityMode)
securityArgs(toolsConfig) ==
  IF toolsConfig.securityMode = "yolo" THEN <<"--yolo">>
  ELSE IF toolsConfig.securityMode = "sandbox" THEN <<"--sandbox">>
  ELSE <<>>

\* arguments built with --debug after the prompt
args_debugLast(prompt, options) ==
  (IF options.model # "" THEN <<"--model", options.model>> ELSE <<>>)
  \o securityArgs(options.toolsConfig)
  \o (IF options.toolsConfig.checkpointing THEN <<"-c">> ELSE <<>>)
  \o <<"-p", finalPrompt(prompt, options)>>
  \o (IF options.debug THEN <<"--debug">> ELSE <<>>)

\* const args = []; args.push(...) ...; args.push('-p', finalPrompt)
args(prompt, options) ==
  (IF options.model # "" THEN <<"--model", options.model>> ELSE <<>>)
  \o securityArgs(options.toolsConfig)
  \o (IF options.toolsConfig.checkpointing THEN <<"-c">> ELSE <<>>)
  \o (IF options.debug THEN <<"--debug">> ELSE <<>>)
  \o <<"-p", finalPrompt(prompt, options)>>

\* a runGeminiCLI call that was given its prompt and options
InitArgs ==
  /\ store = [id \in PlanIds |-> Absent]
  /\ gemDir = FALSE
  /\ now = 0
  /\ late = 0
  /\ call = [c \in Callers |-> IdleCall]
  /\ \E prompt \in ArgPrompts, options \in ArgOptions :
       run = [c \in Callers |->
                [OffRun EXCEPT !.prompt = prompt, !.options = options]]

\* runGeminiCLI from // Build command arguments to the spawn
runGeminiCLI_args(c) ==
  /\ run[c].stage = "off"
  /\ run' = [run EXCEPT ![c] =
       [@ EXCEPT !.stage = "live", !.timer = "armed", !.proc = "running",
                 !.args = args(run[c].prompt, run[c].options)]]
  /\ UNCHANGED <<fsVars, now, late, call>>

NextArgs == \E c \in Callers : runGeminiCLI_args(c)

SpecArgs == InitArgs /\ [][NextArgs]_vars

\* -------------------------------------------------------------- properties
Statuses == {"draft", "approved", "executing", "completed", "failed"}

stored(id) == id \in PlanIds /\ store[id].kind = "plan"

\* the awaited load, save or agent call of caller c completes in this step
advances(c) == call'[c].pc # call[c].pc

\* the positions of executePlan inside its try block
LoopPcs ==
  {"x_save_in_progress", "x_await", "x_save_progress", "x_save_final",
   "x_save_catch"}

\* completed*, then at most one failed, then only pending
orderly(steps) ==
  /\ \A i \in 1..Len(steps) :
       steps[i].status \in {"completed", "failed", "pending"}
  /\ \A i, j \in 1..Len(steps) :
       i < j => /\ steps[i].status = "failed" => steps[j].status = "pending"
                /\ steps[i].status = "pending" => steps[j].status = "pending"

\* C1: approve_plan succeeds only when the stored plan is a draft; on a stored
\* plan of any other status the call is rejected and the store is unchanged.
ApproveOnlyDraft ==
  [][\A c \in Callers :
       ( /\ call[c].pc = "a_load"
         /\ advances(c)
         /\ stored(call[c].planId)
         /\ store[call[c].planId].status # "draft" )
       => /\ call'[c].pc = "done"
          /\ call'[c].outcome = "threw"
          /\ store' = store]_vars

\* C2: execute_plan on a stored plan whose status is not approved fails, with
\* no agent process spawned and the store unchanged.
ExecuteOnlyApproved ==
  [][\A c \in Callers :
       ( /\ call[c].pc = "x_load"
         /\ advances(c)
         /\ stored(call[c].planId)
         /\ store[call[c].planId].status # "approved" )
       => /\ call'[c].pc = "done"
          /\ call'[c].outcome = "threw"
          /\ call'[c].why = "state"
          /\ call'[c].spawns = 0
          /\ run' = run
          /\ store' = store]_vars

\* an execute_plan call was rejected for a stored plan that is not approved
ExecuteRejected ==
  \E c \in Callers :
    /\ call[c].op = "execute_plan"
    /\ call[c].pc = "done"
    /\ call[c].why = "state"
    /\ call[c].spawns = 0
    /\ stored(call[c].planId)
    /\ store[call[c].planId].status \in Statuses \ {"approved"}

\* C3: when an execute_plan call that passed the approved check and entered its
\* loop ends, by return or by throw, the stored plan is completed or failed.
ExecuteNeverLeavesExecuting ==
  [][\A c \in Callers :
       ( /\ call[c].pc \in LoopPcs
         /\ call[c].idx > 0
         /\ call'[c].pc = "done"
         /\ store'[call[c].planId].kind = "plan" )
       => store'[call[c].planId].status \in {"completed", "failed"}]_vars

\* C4: when an execute_plan call that passed the approved check ends, the
\* stored step statuses are a run of completed, at most one failed, then only
\* pending, with none in_progress.
StepsOrderlyAfterExecute ==
  [][\A c \in Callers :
       ( /\ call[c].pc \in LoopPcs
         /\ call'[c].pc = "done"
         /\ store'[call[c].planId].kind = "plan" )
       => orderly(store'[call[c].planId].steps)]_vars

\* C5: a step whose agent call fails or raises becomes failed and the plan
\* failed; the failed plan is what the return leaves stored, no process was
\* spawned for a later step, and the later steps are pending.
StepFailureHaltsPlan ==
  [][\A c \in Callers :
       /\ ( /\ call[c].pc = "x_await"
            /\ advances(c)
            /\ run[c].settled # "ok" )
          => /\ call'[c].mem.steps[call[c].idx].status = "failed"
             /\ call'[c].mem.status = "failed"
             /\ call'[c].pc = "x_save_final"
             /\ run'[c] = OffRun
       /\ ( /\ call[c].pc \in LoopPcs
            /\ ~call[c].allStepsSuccessful )
          => call'[c].spawns = call[c].spawns
       /\ ( /\ call[c].pc \in LoopPcs
            /\ call'[c].pc = "done"
            /\ call'[c].outcome = "returned"
            /\ ~call[c].allStepsSuccessful )
          => LET plan == store'[call[c].planId]
                 k == call[c].idx
             IN /\ plan.kind = "plan"
                /\ plan.status = "failed"
                /\ plan.steps[k].status = "failed"
                /\ call[c].spawns <= k
                /\ \A j \in 1..Len(plan.steps) :
                     /\ j < k => plan.steps[j].status = "completed"
                     /\ j > k => plan.steps[j].status = "pending"]_vars

\* C6: a plan record, once saved, is never removed: every step of every
\* operation leaves each stored plan stored.
PlansNeverRemoved ==
  [][\A id \in PlanIds :
       store[id].kind = "plan" => store'[id].kind = "plan"]_vars

\* C7: every process execute_plan starts for a step is given the model and the
\* tool settings of the plan's configuration snapshot.
StepsUsePlanConfiguration ==
  \A c \in Callers :
    ( /\ call[c].op = "execute_plan"
      /\ run[c].stage = "live" )
    => /\ run[c].args.model = call[c].mem.configuration.model
       /\ run[c].args.toolsConfig = call[c].mem.configuration.toolsConfig

\* C8: a successful edit_plan leaves the stored plan a draft with every step
\* pending, whatever the plan held before and whatever the reply carries.
EditResetsToDraft ==
  [][\A c \in Callers :
       ( /\ call[c].pc = "e_save"
         /\ call'[c].pc = "done"
         /\ call'[c].outcome = "returned" )
       => LET plan == store'[call[c].planId]
          IN /\ plan.kind = "plan"
             /\ plan.status = "draft"
             /\ \A i \in 1..Len(plan.steps) :
                  plan.steps[i].status = "pending"]_vars

\* an edit returned for a plan that was completed or failed with a step that
\* was not pending, on a reply whose steps carry a status
EditedAfterExecution ==
  \E c \in Callers :
    /\ call[c].op = "edit_plan"
    /\ call[c].pc = "done"
    /\ call[c].outcome = "returned"
    /\ call[c].mem.status \in {"completed", "failed"}
    /\ \E i \in 1..Len(call[c].mem.steps) :
         call[c].mem.steps[i].status # "pending"
    /\ Len(call[c].built.steps) > 0
    /\ call[c].built.title = ReplyTitle("explicit")
    /\ stored(call[c].planId)
    /\ store[call[c].planId] = call[c].built

\* C9: edit_plan, approve_plan and execute_plan never change a stored plan's
\* id, created_at, original_prompt or configuration.
IdentityFieldsKept ==
  [][\A c \in Callers : \A id \in PlanIds :
       ( /\ call[c].op \in PlanOps
         /\ store[id].kind = "plan"
         /\ store'[id].kind = "plan" )
       => /\ store'[id].id = id
          /\ store'[id].created_at = store[id].created_at
          /\ store'[id].original_prompt = store[id].original_prompt
          /\ store'[id].configuration = store[id].configuration]_vars

\* a plan was edited, after an approval or an execution, later than it was
\* created and by a caller whose options differ from the plan's snapshot
EditedLater ==
  \E c \in Callers :
    /\ call[c].op = "edit_plan"
    /\ call[c].pc = "done"
    /\ call[c].outcome = "returned"
    /\ call[c].mem.status # "draft"
    /\ stored(call[c].planId)
    /\ store[call[c].planId].modified_at > store[call[c].planId].created_at
    /\ store[call[c].planId].configuration.model # call[c].opts.model

\* C10: when a runGeminiCLI call that created the .gemini directory settles,
\* by resolve or by reject, the directory no longer exists.
ConfigDirGoneAtSettle ==
  [][\A c \in Callers :
       ( /\ run[c].settled = "none"
         /\ run'[c].settled # "none"
         /\ run[c].madeDir )
       => ~gemDir']_vars

\* the promise of caller c is settled in this step
settles(c) == run[c].settled = "none" /\ run'[c].settled # "none"

\* the close handler of caller c runs to its end in this step
closeDone(c) ==
  /\ run'[c].stage = "live"
  /\ \/ ~run[c].cfg /\ run[c].proc # "closed" /\ run'[c].proc = "closed"
     \/ "K" \in run[c].pend /\ "K" \notin run'[c].pend

\* C11: when the timer expires the process is sent SIGTERM once, never a
\* second signal, and the call ends with the timeout error, not a result.
TimeoutEndsWithTimeoutError ==
  [][\A c \in Callers :
       /\ run'[c].kills <= 1
       /\ (run[c].timer = "armed" /\ run'[c].timer = "fired")
          => run'[c].kills = 1
       /\ (settles(c) /\ run'[c].timer = "fired")
          => /\ run'[c].settled = "timeout"
             /\ run'[c].response = NoResponse]_vars

\* C12: the messages of every response are one user message carrying the
\* instruction sent, then one assistant message per stdout chunk and one error
\* message per stderr chunk, in the order the chunks arrived.
MessagesInArrivalOrder ==
  [][\A c \in Callers :
       (settles(c) /\ run'[c].response # NoResponse)
       => LET m == run'[c].response.messages
              o == run'[c].output
          IN /\ Len(m) = 1 + Len(o)
             /\ m[1] = [type |-> "user", content |-> run'[c].args.prompt]
             /\ \A k \in 1..Len(o) :
                  /\ m[k + 1].type =
                       (IF o[k] = "stdout" THEN "assistant" ELSE "error")
                  /\ m[k + 1].content = chunk(k)]_vars

\* a response whose process wrote to stderr and then to stdout, for a prompt
\* sent with a system prompt
MixedOutputResponse ==
  \E c \in Callers :
    /\ run[c].response # NoResponse
    /\ run[c].output = <<"stderr", "stdout">>
    /\ Len(run[c].args.prompt) = 2

StartFailureIsDistinct ==
  [][\A c \in Callers :
       /\ (run[c].proc = "running" /\ run'[c].proc = "errored")
          => /\ run'[c].timer = "cleared"
             /\ ~run[c].cfg => run'[c].settled = "startfail"
       /\ (settles(c) /\ "E" \in run[c].pend)
          => run'[c].settled = "startfail"]_vars

\* C15: every runGeminiCLI call has spawned exactly one process when it ends.
OneProcessPerCall ==
  [][\A c \in Callers :
       /\ call'[c].spawns <= 1
       /\ (call[c].pc = "q_await" /\ advances(c))
          => call'[c].spawns = 1]_vars

\* C16: when the agent call of generate_plan or edit_plan fails, or its reply
\* is not a plan, the operation fails and the store is as it was: the failing
\* step writes nothing, and after a failed edit the record is the one loaded.
FailedPlanningLeavesStore ==
  [][\A c \in Callers :
       (call[c].pc \in {"g_await", "e_await"} /\ advances(c))
       => /\ (run[c].settled # "ok" \/ call'[c].why = "parse")
             => call'[c].outcome = "threw"
          /\ call'[c].outcome = "threw"
             => /\ store' = store
                /\ call[c].pc = "e_await"
                   => store'[call[c].planId] = call[c].mem]_vars

\* the call of caller c is rejected at validation in this step
rejected(c) ==
  /\ advances(c)
  /\ call'[c].outcome = "threw"
  /\ call'[c].why \in {"validation", "not_found"}

\* C17: an empty or blank prompt (query, continue, generate_plan), an empty
\* plan id, or a plan id without a stored record (edit, approve, execute) is
\* rejected, and a rejected operation spawns no agent process and creates or
\* changes no plan record.
RejectedBeforeAnyEffect ==
  [][\A c \in Callers :
       /\ ( /\ call[c].pc = "idle" /\ advances(c)
            /\ \/ call'[c].op \in PromptOps /\ call'[c].prompt \in {"", " "}
               \/ call'[c].op \in PlanOps /\ call'[c].planId = EmptyId )
          => rejected(c) /\ call'[c].why = "validation"
       /\ ( /\ call[c].pc \in {"e_load", "a_load", "x_load"} /\ advances(c)
            /\ ~stored(call[c].planId) )
          => rejected(c) /\ call'[c].why = "not_found"
       /\ rejected(c)
          => /\ store' = store
             /\ call'[c].spawns = 0
             /\ run[c] = OffRun /\ run'[c] = OffRun]_vars

\* a whitespace-only prompt has been rejected
BlankPromptRejected ==
  \E c \in Callers :
    /\ call[c].pc = "done"
    /\ call[c].why = "validation"
    /\ call[c].prompt = " "
    /\ call[c].spawns = 0

\* C18: a generate_plan that succeeds has stored a draft plan with one step
\* per step of the reply, the i-th with id step_i when the reply gives none,
\* description 'Step i' when it gives none, estimated_duration 300 when the
\* reply's is absent or not a number, and status pending whatever it carried.
GeneratedStepsNormalised ==
  [][\A c \in Callers :
       (call[c].pc = "g_save" /\ call'[c].outcome = "returned")
       => LET plan == store'[call[c].planId]
              data == call[c].planData
          IN /\ plan.kind = "plan"
             /\ plan.status = "draft"
             /\ Len(plan.steps) = Len(data.steps)
             /\ \A i \in 1..Len(data.steps) :
                  /\ data.steps[i].id = NoId => plan.steps[i].id = <<"step", i>>
                  /\ data.steps[i].description = NoText
                     => plan.steps[i].description = <<"Step", i>>
                  /\ data.steps[i].estimated_duration.type # "number"
                     => plan.steps[i].estimated_duration = DefaultDuration
                  /\ plan.steps[i].status = "pending"]_vars

\* a plan was generated from a reply whose first step has an id but no
\* description and a string for its duration, and whose second step has a
\* description and a duration but no id
GeneratedFromMixedReply ==
  \E c \in Callers :
    /\ call[c].pc = "done" /\ call[c].outcome = "returned"
    /\ call[c].op = "generate_plan"
    /\ stored(call[c].planId)
    /\ LET steps == store[call[c].planId].steps
       IN /\ Len(steps) = 2
          /\ steps[1].id = ReplyStep("idOnly", 1).id
          /\ steps[1].description = <<"Step", 1>>
          /\ steps[1].estimated_duration = DefaultDuration
          /\ steps[2].id = <<"step", 2>>
          /\ steps[2].description = ReplyStep("textOnly", 2).description
          /\ steps[2].estimated_duration # DefaultDuration

\* the plan the save of caller c writes
saved(c) ==
  IF call[c].pc \in {"g_save", "e_save"} THEN call[c].built ELSE call[c].mem

\* the save caller c awaits succeeds in this step
saveSucceeded(c) ==
  \/ /\ call[c].pc \in {"g_save", "e_save", "a_save", "x_save_final"}
     /\ call'[c].outcome = "returned"
  \/ /\ call[c].pc \in {"x_save_executing", "x_save_progress"}
     /\ call'[c].pc \in {"x_save_in_progress", "x_save_final"}
  \/ /\ call[c].pc = "x_save_in_progress"
     /\ call'[c].pc = "x_await"

\* two steps, two plans with the same value in every field
sameStep(a, b) ==
  \A j \in 1..Len(StepKeys) : field(a, StepKeys[j]) = field(b, StepKeys[j])

samePlan(p, q) ==
  /\ q.kind = "plan"
  /\ \A j \in 1..Len(PlanKeys) :
       PlanKeys[j] # "steps" => field(p, PlanKeys[j]) = field(q, PlanKeys[j])
  /\ Len(p.steps) = Len(q.steps)
  /\ \A i \in 1..Len(p.steps) : sameStep(p.steps[i], q.steps[i])

LoadTellsMalformedFromMissing ==
  [][\A c \in Callers :
       (call[c].pc \in {"e_load", "a_load", "x_load"} /\ advances(c))
       => LET id == call[c].planId
              file == IF id \in PlanIds THEN store[id] ELSE Absent
          IN /\ file = Absent
                => /\ loadPlan(id) = Absent
                   /\ call'[c].why = "not_found"
             /\ file \in {Unparsable, JsonNull}
                => /\ loadPlan(id) = LoadFailed
                   /\ call'[c].outcome = "threw"
                   /\ call'[c].why = "load"]_vars

\* the list_plans call of caller c ends in this step
listEnds(c) == call[c].pc \in {"l_read", "l_file"} /\ call'[c].pc = "done"

\* C21: list_plans does not raise because of a file that is not a plan, and
\* returns one entry for each stored plan and no other entry, a plan created
\* later never after a plan created earlier.
ListsWellFormedPlans ==
  [][\A c \in Callers :
       (listEnds(c) /\ call'[c].why # "readdir")
       => LET plans == call'[c].plans
              ids == {id \in DOMAIN store : store[id].kind = "plan"}
          IN /\ call'[c].outcome = "returned"
             /\ Len(plans) = Cardinality(ids)
             /\ \A id \in ids : \E i \in 1..Len(plans) : plans[i].id = id
             /\ \A i \in 1..Len(plans) :
                  "id" \in DOMAIN plans[i] /\ plans[i].id \in ids
             /\ \A i, j \in 1..Len(plans) :
                  i < j => plans[i].created_at >= plans[j].created_at]_vars

\* the execute_plan call of caller c returns { plan, results } in this step
executeReturns(c) ==
  /\ call[c].pc = "x_save_final"
  /\ call'[c].pc = "done"
  /\ call'[c].outcome = "returned"

\* the agent call of every step of the plan returned success
everyStepSucceeded(cr) ==
  /\ Len(cr.results) = Len(cr.mem.steps)
  /\ \A i \in 1..Len(cr.results) : cr.results[i]

ModifiedAtFollowsMutation ==
  [][\A c \in Callers :
       ( /\ call[c].op \in PlanOps
         /\ saveSucceeded(c)
         /\ store'[saved(c).id] # store[saved(c).id] )
       => store'[saved(c).id].modified_at = now]_vars

\* the same, of the saves that follow an assignment to modified_at: those
\* of edit_plan and approve_plan, and of execute_plan the executing save
\* and the final save
ModifiedAtFollowsStatusChange ==
  [][\A c \in Callers :
       ( /\ call[c].op \in PlanOps
         /\ call[c].pc \notin {"x_save_in_progress", "x_save_progress"}
         /\ saveSucceeded(c)
         /\ store'[saved(c).id] # store[saved(c).id] )
       => store'[saved(c).id].modified_at = now]_vars

\* C24: approve_plan on a stored plan of no steps is rejected and leaves the
\* store as it was, and no stored plan of no steps is approved, executing
\* or completed.
EmptyPlanNeverApproved ==
  [][/\ \A c \in Callers :
          ( /\ call[c].pc = "a_load"
            /\ advances(c)
            /\ stored(call[c].planId)
            /\ Len(store[call[c].planId].steps) = 0 )
          => /\ call'[c].pc = "done"
             /\ call'[c].outcome = "threw"
             /\ store' = store
     /\ \A id \in PlanIds :
          (store'[id].kind = "plan" /\ Len(store'[id].steps) = 0)
          => store'[id].status \notin {"approved", "executing", "completed"}]_vars

\* C25: in every stored plan the ids of the steps are pairwise distinct.
StepIdsDistinct ==
  \A id \in PlanIds :
    stored(id)
    => \A i, j \in 1..Len(store[id].steps) :
         i # j => store[id].steps[i].id # store[id].steps[j].id

\* how far a step of that status has come
rank(status) ==
  CASE status = "pending" -> 0
    [] status = "in_progress" -> 1
    [] OTHER -> 2

\* the stored status of step i of plan id moves backwards in this step
movesBack(id, i) ==
  /\ store[id].kind = "plan" /\ store'[id].kind = "plan"
  /\ i <= Len(store[id].steps) /\ i <= Len(store'[id].steps)
  /\ \/ rank(store'[id].steps[i].status) < rank(store[id].steps[i].status)
     \/ /\ rank(store[id].steps[i].status) = 2
        /\ store'[id].steps[i].status # store[id].steps[i].status

\* C26: the stored status of a step moves backwards, or from one of
\* completed and failed to the other, only when an edit_plan saves the plan.
StepStatusNeverDecreases ==
  [][\A id \in PlanIds : \A i \in 1..MaxSteps :
       movesBack(id, i)
       => \E c \in Callers : call[c].pc = "e_save" /\ call[c].planId = id]_vars

\* C27: the save of generate_plan never writes over a stored plan: the id of
\* the new plan is the id of no plan stored.
GenerateNeverOverwrites ==
  [][\A c \in Callers :
       (call[c].pc = "g_save" /\ stored(call[c].planId))
       => store'[call[c].planId] = store[call[c].planId]]_vars

\* handler h of the call of caller c comes back from cleanupGeminiConfig in
\* this step, the removal of the directory having failed
cleanupFailed(c, h) ==
  /\ h \in run[c].pend
  /\ run'[c].stage = "live"
  /\ h \notin run'[c].pend
  /\ gemDir /\ gemDir'

\* what the handler h settles the call with when the removal succeeds
outcomeOf(r, h) ==
  IF r.settled # "none" THEN r.settled
  ELSE CASE h = "T" -> "timeout"
         [] h = "E" -> "startfail"
         [] OTHER -> closeResult(r.code)

\* C28: when the removal of the config directory fails, the handler that
\* awaited it goes on as after a removal that succeeded: the call ends with
\* the result of the close handler, the timeout error or the start-failure
\* error, and with no other error.
CleanupFailureNotRaised ==
  [][\A c \in Callers : \A h \in {"T", "K", "E"} :
       cleanupFailed(c, h)
       => /\ run'[c].settled = outcomeOf(run[c], h)
          /\ run'[c].settled \in {"ok", "fail", "timeout", "startfail"}
          /\ (h = "K" /\ run[c].settled = "none")
             => run'[c].response = closeResponse(run'[c])
          /\ h # "K" => run'[c].response = run[c].response
          /\ store' = store]_vars

\* a call with a config directory has ended with a success result and the
\* directory is still there: its removal failed
SucceededWithDirLeft ==
  \E c \in Callers :
    /\ run[c].cfg
    /\ run[c].settled = "ok"
    /\ run[c].response.success
    /\ gemDir

\* the agent calls of the steps before step i have all returned success
earlierSucceeded(cr, i) ==
  /\ Len(cr.results) = i - 1
  /\ \A k \in 1..Len(cr.results) : cr.results[k]

\* C29: execute_plan takes the steps one by one in array order, each after
\* the agent call of the step before has returned success; a process is
\* spawned for the step the loop is at while no other process of the call
\* runs, and every step attempted has had exactly one process when its agent
\* call ends.
StepsStrictlySequential ==
  [][\A c \in Callers :
       (call[c].op = "execute_plan" /\ call'[c].op = "execute_plan")
       => /\ call'[c].idx \in {call[c].idx, call[c].idx + 1}
          /\ call'[c].idx = call[c].idx + 1
             => /\ earlierSucceeded(call[c], call'[c].idx)
                /\ call'[c].pc = "x_save_in_progress"
          /\ call'[c].spawns # call[c].spawns
             => /\ call'[c].spawns = call[c].spawns + 1
                /\ call'[c].spawns = call[c].idx
                /\ call'[c].pc = "x_await"
                /\ earlierSucceeded(call[c], call[c].idx)
                /\ run[c].proc = "none" /\ run'[c].proc = "running"
          /\ (call[c].pc = "x_await" /\ advances(c))
             => call'[c].spawns = call[c].idx]_vars

\* the same, with the last part left to the agent calls that did not end
\* with the config directory not written
StepsSequentialUnlessConfigFails ==
  [][\A c \in Callers :
       (call[c].op = "execute_plan" /\ call'[c].op = "execute_plan")
       => /\ call'[c].idx \in {call[c].idx, call[c].idx + 1}
          /\ call'[c].idx = call[c].idx + 1
             => /\ earlierSucceeded(call[c], call'[c].idx)
                /\ call'[c].pc = "x_save_in_progress"
          /\ call'[c].spawns # call[c].spawns
             => /\ call'[c].spawns = call[c].spawns + 1
                /\ call'[c].spawns = call[c].idx
                /\ call'[c].pc = "x_await"
                /\ earlierSucceeded(call[c], call[c].idx)
                /\ run[c].proc = "none" /\ run'[c].proc = "running"
          /\ (call[c].pc = "x_await" /\ advances(c))
             => call'[c].spawns =
                  (IF run[c].settled = "config" THEN call[c].idx - 1
                   ELSE call[c].idx)]_vars

\* C30: when execute_plan spawns the process of step i, the stored plan is
\* executing with step i in_progress and every earlier step completed; and
\* when it marks step i+1 in_progress, step i is stored as completed.
ProgressPersistedBeforeSpawn ==
  [][\A c \in Callers :
       call[c].op = "execute_plan"
       => /\ call'[c].spawns = call[c].spawns + 1
             => LET plan == store'[call[c].planId]
                    i == call[c].idx
                IN /\ plan.kind = "plan"
                   /\ plan.status = "executing"
                   /\ plan.steps[i].status = "in_progress"
                   /\ \A j \in 1..i - 1 : plan.steps[j].status = "completed"
          /\ (call[c].idx >= 1 /\ call'[c].idx = call[c].idx + 1)
             => LET plan == store'[call[c].planId]
                IN /\ plan.kind = "plan"
                   /\ plan.steps[call[c].idx].status = "completed"]_vars

\* C31: the status of a stored plan becomes executing only from approved and
\* by the first save of an execute_plan, completed or failed only from
\* executing, and draft only by the save of a generate_plan or an edit_plan.
StatusFollowsLifecycle ==
  [][\A id \in PlanIds :
       ( /\ store[id].kind = "plan"
         /\ store'[id].kind = "plan"
         /\ store'[id].status # store[id].status )
       => /\ store'[id].status = "executing"
             => /\ store[id].status = "approved"
                /\ \E c \in Callers :
                     call[c].pc = "x_save_executing" /\ call[c].planId = id
          /\ store'[id].status \in {"completed", "failed"}
             => store[id].status = "executing"
          /\ store'[id].status = "draft"
             => \E c \in Callers :
                  call[c].pc \in {"g_save", "e_save"} /\ call[c].planId = id]_vars

\* an execute_plan has returned and left its plan, a plan with steps, stored
\* as completed
StoredCompleted ==
  \E c \in Callers :
    /\ call[c].op = "execute_plan"
    /\ call[c].pc = "done" /\ call[c].outcome = "returned"
    /\ stored(call[c].planId)
    /\ store[call[c].planId].status = "completed"
    /\ Len(store[call[c].planId].steps) > 0
    /\ \A i \in 1..Len(store[call[c].planId].steps) :
         store[call[c].planId].steps[i].status = "completed"

\* the keys of a plan that approve_plan leaves alone
KeptByApproval ==
  {"id", "title", "description", "steps", "created_at", "original_prompt",
   "configuration"}

\* C32: the plan approve_plan saves is the plan it loaded but for status and
\* modified_at, and the record stored after the save holds that plan: title,
\* description, steps with their statuses, id, created_at, original_prompt
\* and configuration are those stored before the call.
ApproveChangesStatusOnly ==
  [][\A c \in Callers :
       /\ (call[c].pc = "a_load" /\ call'[c].pc = "a_save")
          => /\ \A k \in KeptByApproval :
                  field(call'[c].mem, k) = field(store[call[c].planId], k)
             /\ call'[c].mem.status = "approved"
       /\ (call[c].pc = "a_save" /\ call'[c].outcome = "returned")
          => /\ store'[call[c].planId].kind = "plan"
             /\ \A k \in KeptByApproval :
                  field(store'[call[c].planId], k) = field(call[c].mem, k)
             /\ stored(call[c].planId)
                => \A k \in KeptByApproval :
                     field(store'[call[c].planId], k)
                       = field(store[call[c].planId], k)
             /\ \A id \in PlanIds \ {call[c].planId} :
                  store'[id] = store[id]]_vars

\* a plan with a step that is not pending has been approved
ApprovedAfterExecution ==
  \E c \in Callers :
    /\ call[c].op = "approve_plan"
    /\ call[c].pc = "done" /\ call[c].outcome = "returned"
    /\ stored(call[c].planId)
    /\ store[call[c].planId].status = "approved"
    /\ \E i \in 1..Len(store[call[c].planId].steps) :
         store[call[c].planId].steps[i].status # "pending"

\* a handler of the call of caller c comes back from cleanupGeminiConfig in
\* this step
removes(c) ==
  /\ run'[c].stage = "live"
  /\ \E h \in run[c].pend : h \notin run'[c].pend

\* C33: a call makes its config directory once, and its handlers remove the
\* directory once and only while the call is not settled: no handler comes
\* back from a removal when the call is settled, and none is left to remove
\* the directory when the call has returned.
RemovedOnceBeforeSettle ==
  [][/\ \A c \in Callers :
          /\ (run'[c].madeDir /\ ~run[c].madeDir)
             => run[c].stage = "mkdir" /\ ~run[c].cfg
          /\ removes(c) => run[c].settled = "none"
     /\ late' = 0]_vars

\* C34: the approved check of execute_plan looks at the stored status only:
\* a call that loads an approved plan goes on to execute it whatever another
\* call is doing with that plan, so two calls that overlap both execute it.
NoArbitrationBetweenExecutions ==
  [][\A c \in Pair :
       ( /\ call[c].pc = "x_load"
         /\ advances(c)
         /\ stored(call[c].planId)
         /\ store[call[c].planId].status = "approved" )
       => /\ call'[c].pc = "x_save_executing"
          /\ call'[c].mem.status = "executing"]_vars

\* two execute_plan calls on one plan id are both inside the loop, each
\* with a process spawned for a step
BothExecuting ==
  \E c \in Pair : \E d \in Pair \ {c} :
    /\ call[c].op = "execute_plan" /\ call[d].op = "execute_plan"
    /\ call[c].planId = call[d].planId
    /\ call[c].pc = "x_await" /\ call[d].pc = "x_await"
    /\ run[c].proc = "running" /\ run[d].proc = "running"

\* the process of caller c, spawned with a config, runs through this step
runsWithConfig(c) ==
  run[c].cfg /\ run[c].proc = "running" /\ run'[c].proc = "running"

\* C35: while the process of a call that wrote a config runs, no other call
\* removes the config directory and no other call writes its own document
\* to the directory's settings.json.
ConfigScopedToCall ==
  [][\A c \in Pair :
       runsWithConfig(c)
       => /\ (gemDir /\ ~gemDir') => removes(c)
          /\ \A d \in Pair \ {c} :
               ~(run[d].stage = "write" /\ run'[d].stage = "live")]_vars

\* the fields of a plan and of its steps that an execution never assigns
KeptByExecution ==
  {"id", "title", "description", "created_at", "original_prompt",
   "configuration"}

\* C36: a save of execute_plan writes the stored record with the
\* execution's status changes and nothing else: title, description and the
\* other fields an execution does not assign, and the ids and descriptions
\* of the steps, are those of the record stored before the save.
ExecutionKeepsStoredChanges ==
  [][\A c \in Pair :
       ( /\ call[c].op = "execute_plan"
         /\ saveSucceeded(c)
         /\ stored(call[c].planId) )
       => LET old == store[call[c].planId]
              new == store'[call[c].planId]
          IN /\ \A k \in KeptByExecution : field(new, k) = field(old, k)
             /\ Len(new.steps) = Len(old.steps)
             /\ \A i \in 1..Len(old.steps) :
                  /\ new.steps[i].id = old.steps[i].id
                  /\ new.steps[i].description = old.steps[i].description]_vars

\* the close or the error handler of caller c has run clearTimeout
eventHandled(c) == run[c].proc \in {"closed", "errored"}

\* the close or the error handler of caller c has run to its end
handlerEnded(c) ==
  \/ run[c].proc = "closed" /\ "K" \notin run[c].pend
  \/ run[c].proc = "errored" /\ "E" \notin run[c].pend

\* the runGeminiCLI call of caller c goes on in this step
sameRun(c) == run'[c].stage = "live"

\* C37: the close handler and the error handler cancel the timer that is
\* still pending when they start; from then on no SIGTERM is sent to the
\* process and the promise is never rejected with the timeout error; when
\* the handler has run to its end the promise is settled, and a settled
\* promise keeps its outcome.
TimerCancelledOnceHandled ==
  [][\A c \in Callers :
       sameRun(c)
       => /\ ( /\ run[c].timer = "armed"
               /\ ~eventHandled(c)
               /\ run'[c].proc \in {"closed", "errored"} )
             => run'[c].timer = "cleared"
          /\ eventHandled(c)
             => /\ run'[c].kills = run[c].kills
                /\ run'[c].timer = run[c].timer
          /\ run[c].timer = "cleared"
             => /\ eventHandled(c)
                /\ run'[c].settled # "timeout"
          /\ handlerEnded(c) => run[c].settled # "none"
          /\ run[c].settled # "none"
             => run'[c].settled = run[c].settled]_vars

\* a start failure whose error and close handlers have both run to their
\* end: the timer was cancelled, no signal was sent, the promise was
\* rejected once, with the start-failure error
HandledWithTimerCancelled ==
  \E c \in Callers :
    /\ run[c].timer = "cleared"
    /\ run[c].proc = "closed"
    /\ run[c].cfg
    /\ run[c].pend = {}
    /\ run[c].kills = 0
    /\ run[c].settled = "startfail"

\* summary.completedSteps / summary.failedSteps of the execute_plan output
stepsWithStatus(plan, status) ==
  Cardinality({i \in 1..Len(plan.steps) : plan.steps[i].status = status})

\* C38: when execute_plan returns, its results hold one entry for each step
\* that was attempted, in step order: as many entries as the summary counts
\* completed and failed steps, the i-th entry successful exactly when step
\* i is completed.
ResultPerAttemptedStep ==
  [][\A c \in Callers :
       executeReturns(c)
       => LET plan == call'[c].mem
              results == call'[c].results
          IN /\ Len(results) = stepsWithStatus(plan, "completed")
                                + stepsWithStatus(plan, "failed")
             /\ \A i \in 1..Len(results) :
                  results[i] <=> plan.steps[i].status = "completed"]_vars

\* the positions before the last of args where flag stands
positions(a, flag) == {i \in 1..(Len(a) - 1) : a[i] = flag}

\* every position of flag is before every position of later
before(a, flag, later) ==
  \A i \in positions(a, flag) : \A j \in positions(a, later) : i < j

\* the flags of the argument vector, in the order the agent is given them
FlagOrder == <<"--model", "--yolo", "--sandbox", "-c", "--debug", "-p">>

\* C39: the arguments the process is spawned with follow from the options
\* alone: --model and the id come first when a model is set; --yolo stands
\* for the mode yolo, --sandbox for sandbox, neither for safe or no mode;
\* -c is there when checkpointing is on, --debug when debug is on; the
\* flags stand in that order and none twice; -p and the instruction, the
\* system prompt before it when there is one, are the last two arguments;
\* there is no other argument.
ArgsFollowOptions ==
  \A c \in Callers :
    run[c].stage = "live"
    => LET a == run[c].args
           o == run[c].options
           n == Len(a)
           count(flag) == Cardinality(positions(a, flag))
       IN /\ n >= 2
          /\ a[n - 1] = "-p"
          /\ a[n] = IF o.systemPrompt # ""
                    THEN <<o.systemPrompt, run[c].prompt>>
                    ELSE <<run[c].prompt>>
          /\ IF o.model # ""
             THEN a[1] = "--model" /\ a[2] = o.model /\ count("--model") = 1
             ELSE count("--model") = 0
          /\ count("--yolo") = IF o.toolsConfig.securityMode = "yolo" THEN 1 ELSE 0
          /\ count("--sandbox") =
               IF o.toolsConfig.securityMode = "sandbox" THEN 1 ELSE 0
          /\ count("-c") = IF o.toolsConfig.checkpointing THEN 1 ELSE 0
          /\ count("--debug") = IF o.debug THEN 1 ELSE 0
          /\ count("-p") = 1
          /\ \A i, j \in 1..Len(FlagOrder) :
               i < j => before(a, FlagOrder[i], FlagOrder[j])
          /\ n = (IF o.model # "" THEN 2 ELSE 0) + count("--yolo")
                 + count("--sandbox") + count("-c") + count("--debug") + 2

\* a process spawned with a model, auto-approve, checkpointing, debug and
\* a system prompt: seven arguments
SpawnedWithEveryFlag ==
  \E c \in Callers :
    /\ run[c].stage = "live"
    /\ run[c].options.model # ""
    /\ run[c].options.toolsConfig.securityMode = "yolo"
    /\ run[c].options.toolsConfig.checkpointing
    /\ run[c].options.debug
    /\ run[c].options.systemPrompt # ""
    /\ Len(run[c].args) = 7

====
